---- MODULE Spec2Model ----
(***************************************************************************)
(* Limit order book matching engine (src/main.cpp, class OrderBook).       *)
(*                                                                         *)
(* The book is two price-keyed maps of FIFO queues of orders (bids_,       *)
(* asks_) and a registry keyed by order identity (orders_).  AddOrder      *)
(* admits an order, appends it to its price level, registers it and runs   *)
(* MatchOrders.  MatchOrders is modelled one loop iteration at a time      *)
(* (pc), so that the states inside the match loop are states of the model. *)
(***************************************************************************)
EXTENDS Integers, Sequences, FiniteSets, TLC

(***************************************************************************)
(* Bounds of the model.                                                    *)
(***************************************************************************)
MaxOrderId == 3
MaxPrice == 2
MaxQuantity == 2

OrderIds == 1..MaxOrderId
Prices == 1..MaxPrice
Quantities == 1..MaxQuantity

(***************************************************************************)
(* enum class OrderType, enum class Side.                                  *)
(***************************************************************************)
OrderType == {"GoodTillCancel", "FillAndKill"}
Side == {"Buy", "Sell"}

VARIABLES
    bids_,      \* OrderBook::bids_  : price -> queue of orders (best = highest)
    asks_,      \* OrderBook::asks_  : price -> queue of orders (best = lowest)
    orders_,    \* OrderBook::orders_: identity -> location of the order
    pc,         \* position of the running call: idle, loop, settle, returned,
                \* thrown, crashed
    trades,     \* MatchOrders' local `trades`, the value AddOrder returns
    quantity,   \* MatchOrders' local `quantity` of the current iteration
    op,         \* history: the operation of the last call
    incoming,   \* history: the order handed to the last AddOrder
    pre,        \* history: bids_, asks_, orders_ when the last call started
    arrived,    \* history: per side and price, identities in order of insertion
    accepted,   \* history: identities that AddOrder has ever inserted
    traded      \* history: per identity, the quantity of all trades that
                \* named the order carrying it since that order was added

vars == <<bids_, asks_, orders_, pc, trades, quantity, op, incoming, pre, arrived, accepted,
          traded>>

(***************************************************************************)
(* Order::Order: remaining quantity starts at the initial quantity.        *)
(***************************************************************************)
Order(ordertype, orderid, side, qty, price) ==
    [orderType_ |-> ordertype, orderID_ |-> orderid, side_ |-> side,
     price_ |-> price, initialQuantity_ |-> qty, remainingQuantity |-> qty]

NoOrder == Order("GoodTillCancel", 0, "Buy", 0, 0)

isFilledOffByOne(order) == order.remainingQuantity <= 1

isFilled(order) == order.remainingQuantity = 0

getFilledQuantity(order) == order.initialQuantity_ - order.remainingQuantity

(***************************************************************************)
(* Order::Fill: throws when quantity exceeds the remaining quantity,       *)
(* otherwise subtracts it.                                                 *)
(***************************************************************************)
FillThrows(order, qty) == qty > order.remainingQuantity

FillBroken(order, qty) == [order EXCEPT !.remainingQuantity = @ + qty]

Fill(order, qty) == [order EXCEPT !.remainingQuantity = @ - qty]

(***************************************************************************)
(* std::map helpers.  bids_ is ordered by std::greater, asks_ by           *)
(* std::less, so begin() is the highest bid and the lowest ask.            *)
(***************************************************************************)
SetMax(S) == CHOOSE x \in S : \A y \in S : y <= x
SetMin(S) == CHOOSE x \in S : \A y \in S : x <= y

BestBidWorst(book) == SetMin(DOMAIN book)

BestBid(book) == SetMax(DOMAIN book)

BestAskWorst(book) == SetMax(DOMAIN book)

BestAsk(book) == SetMin(DOMAIN book)

EmptyBook == [p \in {} |-> <<>>]

EraseLevelForgets(book, price) == book

EraseLevel(book, price) == [p \in (DOMAIN book) \ {price} |-> book[p]]

EraseOrderForgets(registry, orderid) == registry

EraseOrder(registry, orderid) == [i \in (DOMAIN registry) \ {orderid} |-> registry[i]]

PopFront(book, price) == [book EXCEPT ![price] = Tail(@)]

(***************************************************************************)
(* bids_[price] / asks_[price] followed by push_back: get or create the    *)
(* level, append at the tail.                                              *)
(***************************************************************************)
PushFront(book, order) ==
    [p \in (DOMAIN book) \cup {order.price_} |->
        IF p \in DOMAIN book THEN
            (IF p = order.price_ THEN <<order>> \o book[p] ELSE book[p])
        ELSE <<order>>]

PushBack(book, order) ==
    [p \in (DOMAIN book) \cup {order.price_} |->
        IF p \in DOMAIN book THEN
            (IF p = order.price_ THEN Append(book[p], order) ELSE book[p])
        ELSE <<order>>]

(***************************************************************************)
(* OrderBook::CanMatch: a buy can match when the lowest ask is at or below *)
(* its price, a sell when the highest bid is at or above its price.        *)
(***************************************************************************)
CanMatchIgnoringPrice(side, price) ==
    IF side = "Buy" THEN DOMAIN asks_ # {} ELSE DOMAIN bids_ # {}

CanMatch(side, price) ==
    IF side = "Buy"
    THEN IF DOMAIN asks_ = {} THEN FALSE ELSE price >= BestAsk(asks_)
    ELSE IF DOMAIN bids_ = {} THEN FALSE ELSE price <= BestBid(bids_)

(***************************************************************************)
(* AddOrder's duplicate test, orders_.contains(order->getOrderID()).       *)
(***************************************************************************)
ContainsNever(registry, orderid) == FALSE

Contains(registry, orderid) == orderid \in DOMAIN registry

(***************************************************************************)
(* OrderEntry: the registry entry of an order names the list the order's   *)
(* iterator points into (its side and price level).                        *)
(***************************************************************************)
OrderEntry(order) == [side_ |-> order.side_, price_ |-> order.price_]

InsertEntryForgets(registry, order) == registry

InsertEntry(registry, order) ==
    [i \in (DOMAIN registry) \cup {order.orderID_} |->
        IF i \in DOMAIN registry THEN registry[i] ELSE OrderEntry(order)]

(***************************************************************************)
(* The book as one value, for snapshots and for the sequential steps of    *)
(* MatchOrders' tail.                                                      *)
(***************************************************************************)
Book(b, a, o) == [bids_ |-> b, asks_ |-> a, orders_ |-> o]

(***************************************************************************)
(* cancelOrder(identity): remove the order from its price-level queue and  *)
(* from the registry; remove the level when its queue becomes empty;       *)
(* nothing happens when the identity is not registered.  The source calls  *)
(* CancelOrder but does not define it.                                     *)
(***************************************************************************)
RemoveHeadOfLevel(book, price, orderid) ==
    IF price \notin DOMAIN book THEN book
    ELSE IF Tail(book[price]) = <<>> THEN EraseLevel(book, price)
    ELSE [book EXCEPT ![price] = Tail(@)]

RemoveFromLevel(book, price, orderid) ==
    IF price \notin DOMAIN book THEN book
    ELSE LET q == SelectSeq(book[price], LAMBDA x : x.orderID_ # orderid)
         IN  IF q = <<>> THEN EraseLevel(book, price)
             ELSE [book EXCEPT ![price] = q]

CancelOrderIn(bk, orderid) ==
    IF orderid \notin DOMAIN bk.orders_ THEN bk
    ELSE LET e == bk.orders_[orderid]
         IN  IF e.side_ = "Buy"
             THEN Book(RemoveFromLevel(bk.bids_, e.price_, orderid), bk.asks_,
                       EraseOrder(bk.orders_, orderid))
             ELSE Book(bk.bids_, RemoveFromLevel(bk.asks_, e.price_, orderid),
                       EraseOrder(bk.orders_, orderid))

(***************************************************************************)
(* History of insertion order per side and price.                          *)
(***************************************************************************)
IdsAt(book, price) ==
    IF price \in DOMAIN book
    THEN {book[price][i].orderID_ : i \in 1..Len(book[price])}
    ELSE {}

Prune(arr, b, a) ==
    [sp \in Side \X Prices |->
        SelectSeq(arr[sp], LAMBDA i :
            i \in IdsAt(IF sp[1] = "Buy" THEN b ELSE a, sp[2]))]

(***************************************************************************)
(* History of the trades that name an identity: a trade adds the quantity  *)
(* of each of its legs to the identity that leg names.                     *)
(***************************************************************************)
Named(tr, t) ==
    [i \in DOMAIN tr |->
        tr[i] + (IF t.bidTrade_.orderid_ = i THEN t.bidTrade_.quantity_ ELSE 0)
              + (IF t.askTrade_.orderid_ = i THEN t.askTrade_.quantity_ ELSE 0)]

(***************************************************************************)
(* Init: the book after construction.                                      *)
(***************************************************************************)
Init ==
    /\ bids_ = EmptyBook
    /\ asks_ = EmptyBook
    /\ orders_ = EmptyBook
    /\ pc = "idle"
    /\ trades = <<>>
    /\ quantity = 0
    /\ op = "none"
    /\ incoming = NoOrder
    /\ pre = Book(EmptyBook, EmptyBook, EmptyBook)
    /\ arrived = [sp \in Side \X Prices |-> <<>>]
    /\ accepted = {}
    /\ traded = [i \in OrderIds |-> 0]

(***************************************************************************)
(* OrderBook::AddOrder up to the call of MatchOrders: reject a duplicate   *)
(* identity, reject a fill-and-kill order that cannot match, otherwise     *)
(* append the order to its level and register it.                          *)
(***************************************************************************)
AddOrder(order) ==
    /\ pc = "idle"
    /\ op' = "add"
    /\ incoming' = order
    /\ pre' = Book(bids_, asks_, orders_)
    /\ trades' = <<>>
    /\ quantity' = 0
    /\ IF Contains(orders_, order.orderID_)
       THEN /\ pc' = "returned"
            /\ UNCHANGED <<bids_, asks_, orders_, arrived, accepted, traded>>
       ELSE IF order.orderType_ = "FillAndKill" /\ ~CanMatch(order.side_, order.price_)
       THEN /\ pc' = "returned"
            /\ UNCHANGED <<bids_, asks_, orders_, arrived, accepted, traded>>
       ELSE /\ IF order.side_ = "Buy"
               THEN /\ bids_' = PushBack(bids_, order)
                    /\ asks_' = asks_
               ELSE /\ asks_' = PushBack(asks_, order)
                    /\ bids_' = bids_
            /\ orders_' = InsertEntry(orders_, order)
            /\ arrived' = [arrived EXCEPT ![<<order.side_, order.price_>>] =
                               Append(@, order.orderID_)]
            /\ accepted' = accepted \cup {order.orderID_}
            /\ traded' = [traded EXCEPT ![order.orderID_] = 0]
            /\ pc' = "loop"

(***************************************************************************)
(* MatchOrders, loop tests: the outer loop goes on while both sides are    *)
(* non-empty and the best bid is not below the best ask.  The inner test   *)
(* (both best queues non-empty) is true of every level that exists.        *)
(***************************************************************************)
LoopContinuesStrict(b, a) ==
    /\ DOMAIN b # {}
    /\ DOMAIN a # {}
    /\ BestBid(b) > BestAsk(a)

LoopContinues(b, a) ==
    /\ DOMAIN b # {}
    /\ DOMAIN a # {}
    /\ ~(BestBid(b) < BestAsk(a))

MaxOfQuantities(x, y) == IF y < x THEN x ELSE y

MinQuantity(x, y) == IF y < x THEN y ELSE x

(***************************************************************************)
(* MatchOrders, first half of an inner iteration: the heads of the best    *)
(* levels, quantity = min of their remaining quantities, Fill on both.     *)
(* A throwing Fill leaves AddOrder by exception.                           *)
(***************************************************************************)
MatchFill ==
    /\ pc = "loop"
    /\ LoopContinues(bids_, asks_)
    /\ LET bp == BestBid(bids_)
           ap == BestAsk(asks_)
           bid == Head(bids_[bp])
           ask == Head(asks_[ap])
           q == MinQuantity(bid.remainingQuantity, ask.remainingQuantity)
       IN  IF FillThrows(bid, q)
           THEN /\ pc' = "thrown"
                /\ UNCHANGED <<bids_, asks_, quantity>>
           ELSE IF FillThrows(ask, q)
           THEN /\ pc' = "thrown"
                /\ bids_' = [bids_ EXCEPT ![bp][1] = Fill(bid, q)]
                /\ UNCHANGED <<asks_, quantity>>
           ELSE /\ pc' = "settle"
                /\ bids_' = [bids_ EXCEPT ![bp][1] = Fill(bid, q)]
                /\ asks_' = [asks_ EXCEPT ![ap][1] = Fill(ask, q)]
                /\ quantity' = q
    /\ UNCHANGED <<orders_, trades, op, incoming, pre, arrived, accepted, traded>>

(***************************************************************************)
(* The Trade pushed at the end of an iteration: each leg carries its own   *)
(* order's identity and limit price, and the executed quantity.            *)
(***************************************************************************)
TradeInfoNoQuantity(orderid, price, qty) == [orderid_ |-> orderid, price_ |-> price, quantity_ |-> 0]

TradeInfo(orderid, price, qty) == [orderid_ |-> orderid, price_ |-> price, quantity_ |-> qty]

TradeAtAskPrice(bid, ask, qty) ==
    [bidTrade_ |-> TradeInfo(bid.orderID_, ask.price_, qty),
     askTrade_ |-> TradeInfo(ask.orderID_, ask.price_, qty)]

Trade(bid, ask, qty) ==
    [bidTrade_ |-> TradeInfo(bid.orderID_, bid.price_, qty),
     askTrade_ |-> TradeInfo(ask.orderID_, ask.price_, qty)]

(***************************************************************************)
(* `bid` and `ask` are references to the front elements of the lists.      *)
(* After pop_front the reference dangles, and it is read again for         *)
(* orders_.erase, for the Trade and (through `bids`/`asks` after the level *)
(* is erased) for the inner loop test.  A build either reads the stale,    *)
(* unchanged memory or faults at the first such read.                      *)
(***************************************************************************)
DanglingRead == {"stale", "fault"}

(***************************************************************************)
(* MatchOrders, second half of an inner iteration: pop filled orders and   *)
(* erase them from the registry, erase emptied levels, push the Trade.     *)
(***************************************************************************)
MatchSettle ==
    /\ pc = "settle"
    /\ LET bp == BestBid(bids_)
           ap == BestAsk(asks_)
           bid == Head(bids_[bp])
           ask == Head(asks_[ap])
           b1 == IF isFilled(bid) THEN PopFront(bids_, bp) ELSE bids_
           o1 == IF isFilled(bid) THEN EraseOrder(orders_, bid.orderID_) ELSE orders_
           a1 == IF isFilled(ask) THEN PopFront(asks_, ap) ELSE asks_
           o2 == IF isFilled(ask) THEN EraseOrder(o1, ask.orderID_) ELSE o1
           b2 == IF b1[bp] = <<>> THEN EraseLevel(b1, bp) ELSE b1
           a2 == IF a1[ap] = <<>> THEN EraseLevel(a1, ap) ELSE a1
       IN  \E outcome \in DanglingRead :
             IF outcome = "stale"
             THEN /\ bids_' = b2
                  /\ asks_' = a2
                  /\ orders_' = o2
                  /\ trades' = Append(trades, Trade(bid, ask, quantity))
                  /\ traded' = Named(traded, Trade(bid, ask, quantity))
                  /\ arrived' = Prune(arrived, b2, a2)
                  /\ quantity' = 0
                  /\ pc' = "loop"
             ELSE /\ isFilled(bid) \/ isFilled(ask)
                  /\ bids_' = b1
                  /\ asks_' = IF isFilled(bid) THEN asks_ ELSE a1
                  /\ pc' = "crashed"
                  /\ UNCHANGED <<orders_, trades, arrived, quantity, traded>>
    /\ UNCHANGED <<op, incoming, pre, accepted>>

(***************************************************************************)
(* MatchOrders, after the loop: cancel a fill-and-kill order found at the  *)
(* head of the best bid level, then one at the head of the best ask level, *)
(* and return the trades.                                                  *)
(***************************************************************************)
NeverFillAndKill(order) == FALSE

IsFillAndKill(order) == order.orderType_ = "FillAndKill"

CancelHeadFillAndKillBidsOnly(bk) ==
    IF DOMAIN bk.bids_ # {}
    THEN LET order == Head(bk.bids_[BestBid(bk.bids_)])
         IN  IF IsFillAndKill(order)
             THEN CancelOrderIn(bk, order.orderID_) ELSE bk
    ELSE bk

CancelHeadFillAndKill(bk) ==
    LET k1 == IF DOMAIN bk.bids_ # {}
              THEN LET order == Head(bk.bids_[BestBid(bk.bids_)])
                   IN  IF IsFillAndKill(order)
                       THEN CancelOrderIn(bk, order.orderID_) ELSE bk
              ELSE bk
    IN  IF DOMAIN k1.asks_ # {}
        THEN LET order == Head(k1.asks_[BestAsk(k1.asks_)])
             IN  IF IsFillAndKill(order)
                 THEN CancelOrderIn(k1, order.orderID_) ELSE k1
        ELSE k1

MatchFinish ==
    /\ pc = "loop"
    /\ ~LoopContinues(bids_, asks_)
    /\ LET k == CancelHeadFillAndKill(Book(bids_, asks_, orders_))
       IN  /\ bids_' = k.bids_
           /\ asks_' = k.asks_
           /\ orders_' = k.orders_
           /\ arrived' = Prune(arrived, k.bids_, k.asks_)
    /\ pc' = "returned"
    /\ UNCHANGED <<trades, quantity, op, incoming, pre, accepted, traded>>

(***************************************************************************)
(* cancelOrder as an operation of the book.                                *)
(***************************************************************************)
CancelOrder(orderid) ==
    /\ pc = "idle"
    /\ LET k == CancelOrderIn(Book(bids_, asks_, orders_), orderid)
       IN  /\ bids_' = k.bids_
           /\ asks_' = k.asks_
           /\ orders_' = k.orders_
           /\ arrived' = Prune(arrived, k.bids_, k.asks_)
    /\ op' = "cancel"
    /\ incoming' = [NoOrder EXCEPT !.orderID_ = orderid]
    /\ pre' = Book(bids_, asks_, orders_)
    /\ trades' = <<>>
    /\ pc' = "returned"
    /\ UNCHANGED <<quantity, accepted, traded>>

(***************************************************************************)
(* The return of AddOrder (return { }, return MatchOrders()) and of        *)
(* cancelOrder: control is back at the caller, the locals of the call and  *)
(* the history of the call are gone, and the book accepts the next call.   *)
(***************************************************************************)
Return ==
    /\ pc = "returned"
    /\ pc' = "idle"
    /\ op' = "none"
    /\ incoming' = NoOrder
    /\ pre' = Book(EmptyBook, EmptyBook, EmptyBook)
    /\ trades' = <<>>
    /\ traded' = [i \in OrderIds |-> IF i \in DOMAIN orders_ THEN traded[i] ELSE 0]
    /\ UNCHANGED <<bids_, asks_, orders_, quantity, arrived, accepted>>

Next ==
    \/ \E t \in OrderType, i \in OrderIds, s \in Side, q \in Quantities, p \in Prices :
          AddOrder(Order(t, i, s, q, p))
    \/ \E i \in OrderIds : CancelOrder(i)
    \/ MatchFill
    \/ MatchSettle
    \/ MatchFinish
    \/ Return

Spec == Init /\ [][Next]_vars

(***************************************************************************)
(* Vocabulary of the properties.                                           *)
(***************************************************************************)
LevelOrders(book, p) == {book[p][i] : i \in 1..Len(book[p])}

AllOrders(book) == UNION {LevelOrders(book, p) : p \in DOMAIN book}

BookNow == Book(bids_, asks_, orders_)

Uncrossed(b, a) ==
    \/ DOMAIN b = {}
    \/ DOMAIN a = {}
    \/ \A x \in DOMAIN b, y \in DOMAIN a : x < y

RECURSIVE SumRemaining(_)
SumRemaining(q) ==
    IF q = <<>> THEN 0 ELSE Head(q).remainingQuantity + SumRemaining(Tail(q))

RECURSIVE SumLevels(_, _)
SumLevels(book, ps) ==
    IF ps = {} THEN 0
    ELSE LET p == CHOOSE x \in ps : TRUE
         IN  SumRemaining(book[p]) + SumLevels(book, ps \ {p})

RECURSIVE SumTrades(_)
SumTrades(ts) ==
    IF ts = <<>> THEN 0 ELSE Head(ts).bidTrade_.quantity_ + SumTrades(Tail(ts))

PreOrders == AllOrders(pre.bids_) \cup AllOrders(pre.asks_)

\* limit price of the order that carried identity i when the call started
PreLimit(i) ==
    IF \E o \in PreOrders : o.orderID_ = i
    THEN (CHOOSE o \in PreOrders : o.orderID_ = i).price_
    ELSE 0

\* the opposite side of the incoming order when the call started
PreOpposite == IF incoming.side_ = "Buy" THEN pre.asks_ ELSE pre.bids_

\* prices of the opposite side at or better than the incoming order's limit
PreQualifying ==
    {p \in DOMAIN PreOpposite :
        IF incoming.side_ = "Buy" THEN p <= incoming.price_ ELSE p >= incoming.price_}

FreshIdentity == incoming.orderID_ \notin DOMAIN pre.orders_

IncomingFAK == op = "add" /\ incoming.orderType_ = "FillAndKill"

\* C1: whenever no call is running (every addOrder and cancelOrder has
\* returned) the book is uncrossed: a side is empty or every bid price is
\* strictly below every ask price.
C1_Uncrossed == pc \in {"returned", "idle"} => Uncrossed(bids_, asks_)

C1_Witness ==
    /\ pc = "returned"
    /\ op = "add"
    /\ trades # <<>>
    /\ DOMAIN bids_ # {}
    /\ DOMAIN asks_ # {}

\* C2: after addOrder returns no fill-and-kill order is in a bid queue or an
\* ask queue, and an admitted fill-and-kill order is not in the registry.
C2_NoRestingFAK ==
    pc \in {"returned", "idle"} =>
        /\ \A o \in AllOrders(bids_) \cup AllOrders(asks_) :
              o.orderType_ # "FillAndKill"
        /\ (IncomingFAK /\ FreshIdentity) => incoming.orderID_ \notin DOMAIN orders_

C2_Witness ==
    /\ pc = "returned"
    /\ IncomingFAK
    /\ FreshIdentity
    /\ trades # <<>>
    /\ SumTrades(trades) < incoming.initialQuantity_

\* C3: in every trade returned by addOrder both legs carry the limit price
\* of the resting order, the one that was in the book before the call.
C3_BothLegsAtRestingPrice ==
    (pc = "returned" /\ op = "add") =>
        \A k \in 1..Len(trades) :
            LET t == trades[k]
                resting == IF t.bidTrade_.orderid_ = incoming.orderID_
                           THEN t.askTrade_.orderid_ ELSE t.bidTrade_.orderid_
            IN  /\ t.bidTrade_.price_ = PreLimit(resting)
                /\ t.askTrade_.price_ = PreLimit(resting)

\* A arrived before B at the same side and price
EarlierAtLevel(A, B) ==
    \E sp \in Side \X Prices :
        \E i, j \in 1..Len(arrived[sp]) :
            i < j /\ arrived[sp][i] = A /\ arrived[sp][j] = B

Live(A) ==
    \E o \in AllOrders(bids_) \cup AllOrders(asks_) :
        o.orderID_ = A /\ o.remainingQuantity > 0

HeadsOf(book) == {Head(book[p]) : p \in {x \in DOMAIN book : book[x] # <<>>}}

KeepsHead(book, bookAfter, t) ==
    \A p \in DOMAIN book :
        (/\ book[p] # <<>>
         /\ Head(book[p]).remainingQuantity > 0
         /\ Head(book[p]).orderID_ \in {t.bidTrade_.orderid_, t.askTrade_.orderid_})
        => /\ p \in DOMAIN bookAfter
           /\ bookAfter[p] = book[p]

\* C4: time priority within a price level: when a trade is emitted, no order
\* that arrived earlier at the same side and price as an order named by the
\* trade is still in the book with remaining > 0, and a traded order that is
\* only partially filled stays at the head of its queue.
C4_TimePriority ==
    [][Len(trades') = Len(trades) + 1 =>
        LET t == trades'[Len(trades')]
        IN  /\ \A B \in {t.bidTrade_.orderid_, t.askTrade_.orderid_} :
                  \A A \in OrderIds : EarlierAtLevel(A, B) => ~Live(A)
            /\ KeepsHead(bids_, bids_', t)
            /\ KeepsHead(asks_, asks_', t)]_vars

C4_Witness ==
    /\ Len(trades) = 2
    /\ trades[1].askTrade_.orderid_ # trades[2].askTrade_.orderid_
    /\ trades[1].askTrade_.price_ = trades[2].askTrade_.price_
    /\ PreLimit(trades[1].askTrade_.orderid_) = PreLimit(trades[2].askTrade_.orderid_)
    /\ \E p \in DOMAIN pre.asks_ :
          /\ Len(pre.asks_[p]) >= 2
          /\ pre.asks_[p][1].orderID_ = trades[1].askTrade_.orderid_
          /\ pre.asks_[p][2].orderID_ = trades[2].askTrade_.orderid_

\* C5: price priority within the trades of one addOrder call: for an incoming
\* buy the limit prices of the ask-leg orders are non-decreasing along the
\* list and no ask with remaining > 0 is priced strictly better than a traded
\* ask; for an incoming sell the same with bids, non-increasing.
C5_PricePriority ==
    op = "add" =>
        IF incoming.side_ = "Buy"
        THEN /\ \A k \in 1..(Len(trades) - 1) :
                   PreLimit(trades[k].askTrade_.orderid_)
                     <= PreLimit(trades[k + 1].askTrade_.orderid_)
             /\ \A k \in 1..Len(trades) : \A o \in AllOrders(asks_) :
                   o.remainingQuantity > 0
                     => o.price_ >= PreLimit(trades[k].askTrade_.orderid_)
        ELSE /\ \A k \in 1..(Len(trades) - 1) :
                   PreLimit(trades[k].bidTrade_.orderid_)
                     >= PreLimit(trades[k + 1].bidTrade_.orderid_)
             /\ \A k \in 1..Len(trades) : \A o \in AllOrders(bids_) :
                   o.remainingQuantity > 0
                     => o.price_ <= PreLimit(trades[k].bidTrade_.orderid_)

C5_Witness ==
    /\ pc = "returned"
    /\ op = "add"
    /\ incoming.side_ = "Buy"
    /\ Len(trades) = 2
    /\ PreLimit(trades[1].askTrade_.orderid_) < PreLimit(trades[2].askTrade_.orderid_)

\* C6 as stated: once an identity has been accepted, every later addOrder
\* carrying it returns at once with no trades and the book unchanged, also
\* when the first order has meanwhile been filled or cancelled.
C6_RejectedForever ==
    [][(pc = "idle" /\ op' = "add" /\ incoming'.orderID_ \in accepted) =>
          (/\ pc' = "returned"
           /\ trades' = <<>>
           /\ UNCHANGED <<bids_, asks_, orders_>>)]_vars

\* C6 amended: once an identity has been accepted, every later addOrder
\* carrying it while the accepted order is still in the registry returns at
\* once with no trades and leaves bids, asks and registry unchanged.
C6_RejectedWhileRegistered ==
    [][(/\ pc = "idle"
        /\ op' = "add"
        /\ incoming'.orderID_ \in accepted
        /\ incoming'.orderID_ \in DOMAIN orders_) =>
          (/\ pc' = "returned"
           /\ trades' = <<>>
           /\ UNCHANGED <<bids_, asks_, orders_>>)]_vars

C6_Witness ==
    /\ pc = "returned"
    /\ op = "add"
    /\ incoming.orderID_ \in accepted
    /\ incoming.orderID_ \in DOMAIN pre.orders_
    /\ \E o \in PreOrders :
          /\ o.orderID_ = incoming.orderID_
          /\ 0 < o.remainingQuantity
          /\ o.remainingQuantity < o.initialQuantity_
    /\ BookNow = pre

\* the incoming order would trade if it were admitted
WouldCross ==
    IF incoming.side_ = "Buy"
    THEN \E p \in DOMAIN pre.asks_ : p <= incoming.price_
    ELSE \E p \in DOMAIN pre.bids_ : p >= incoming.price_

\* C7: addOrder with an identity that is in the registry returns no trades
\* and leaves bids, asks, registry and every remaining quantity unchanged,
\* whatever the order's side, price, quantity and time-in-force.
C7_DuplicateRejected ==
    (op = "add" /\ ~FreshIdentity) =>
        /\ pc = "returned"
        /\ trades = <<>>
        /\ BookNow = pre

C7_Witness ==
    /\ pc = "returned"
    /\ op = "add"
    /\ ~FreshIdentity
    /\ WouldCross
    /\ \E o \in PreOrders :
          /\ o.orderID_ = incoming.orderID_
          /\ o.side_ # incoming.side_

\* a fill-and-kill order that meets no qualifying price on the other side
FAKCannotMatch == IncomingFAK /\ FreshIdentity /\ ~WouldCross

\* C8: a fill-and-kill order that cannot match (other side empty or its best
\* price beyond the limit) returns no trades, leaves bids, asks and registry
\* unchanged and is at no moment of the call in the book.
C8_UnmatchableFAKRejected ==
    FAKCannotMatch =>
        /\ pc = "returned"
        /\ trades = <<>>
        /\ BookNow = pre

C8_Witness ==
    /\ pc = "returned"
    /\ FAKCannotMatch
    /\ DOMAIN PreOpposite # {}
    /\ BookNow = pre

PreLiquidity == SumLevels(PreOpposite, PreQualifying)

RestrictTo(book, ps) == [p \in ps |-> book[p]]

\* C9: an admitted fill-and-kill order larger than the liquidity at or better
\* than its limit trades all of that liquidity, is afterwards in no queue
\* and not in the registry, leaves no level of its own, and leaves the
\* opposite orders priced worse than its limit, and its own side, untouched.
C9_FAKRemainderDiscarded ==
    (/\ pc = "returned"
     /\ IncomingFAK
     /\ FreshIdentity
     /\ WouldCross
     /\ incoming.initialQuantity_ > PreLiquidity) =>
        /\ SumTrades(trades) = PreLiquidity
        /\ incoming.orderID_ \notin DOMAIN orders_
        /\ \A o \in AllOrders(bids_) \cup AllOrders(asks_) :
              o.orderID_ # incoming.orderID_
        /\ IF incoming.side_ = "Buy"
           THEN /\ bids_ = pre.bids_
                /\ asks_ = RestrictTo(pre.asks_, (DOMAIN pre.asks_) \ PreQualifying)
           ELSE /\ asks_ = pre.asks_
                /\ bids_ = RestrictTo(pre.bids_, (DOMAIN pre.bids_) \ PreQualifying)
        /\ orders_ = [i \in {o.orderID_ : o \in AllOrders(bids_) \cup AllOrders(asks_)}
                        |-> pre.orders_[i]]

C9_Witness ==
    /\ pc = "returned"
    /\ IncomingFAK
    /\ FreshIdentity
    /\ WouldCross
    /\ incoming.initialQuantity_ > PreLiquidity
    /\ SumTrades(trades) = PreLiquidity
    /\ (DOMAIN PreOpposite) \ PreQualifying # {}
    /\ incoming.orderID_ \notin DOMAIN orders_

QuantityInRange(o) ==
    0 <= o.remainingQuantity /\ o.remainingQuantity <= o.initialQuantity_

\* C10: in every state, the states inside the match loop included, every
\* order in the book has 0 <= remaining <= initial, and no step increases
\* the remaining quantity of an order.
C10_RemainingBounded ==
    /\ [](\A o \in AllOrders(bids_) \cup AllOrders(asks_) : QuantityInRange(o))
    /\ [][\A o \in AllOrders(bids_) \cup AllOrders(asks_) :
            \A n \in AllOrders(bids_') \cup AllOrders(asks_') :
               n.orderID_ = o.orderID_
                 => n.remainingQuantity <= o.remainingQuantity]_vars

C10_Witness ==
    /\ pc = "settle"
    /\ \E o \in AllOrders(bids_) : o.remainingQuantity = 0
    /\ \E o \in AllOrders(asks_) :
          0 < o.remainingQuantity /\ o.remainingQuantity < o.initialQuantity_

\* C11: Fill never throws: for every sequence of calls, no Fill of the match
\* loop is handed a quantity greater than the order's remaining quantity.
C11_FillNeverThrows == pc # "thrown"

C11_Witness ==
    /\ pc = "settle"
    /\ quantity > 0
    /\ \E o \in AllOrders(bids_) \cup AllOrders(asks_) :
          /\ o.remainingQuantity > 0
          /\ o.remainingQuantity < o.initialQuantity_
          /\ o.orderID_ = incoming.orderID_
    /\ \E o \in AllOrders(bids_) \cup AllOrders(asks_) : o.remainingQuantity = 0

\* the places <<side, price, position>> at which identity i occurs in a queue
OccurrencesIn(book, side, i) ==
    UNION {{<<side, p, k>> : k \in {j \in 1..Len(book[p]) : book[p][j].orderID_ = i}} :
              p \in DOMAIN book}

Occurrences(i) == OccurrencesIn(bids_, "Buy", i) \cup OccurrencesIn(asks_, "Sell", i)

OrderAt(x) == IF x[1] = "Buy" THEN bids_[x[2]][x[3]] ELSE asks_[x[2]][x[3]]

\* C12: after every addOrder or cancelOrder returns, an identity is a key of
\* the registry iff an order with that identity occurs in exactly one queue,
\* exactly once, on the side of the order and under its limit price; no
\* identity occurs twice.
C12_RegistryMatchesQueues ==
    pc \in {"returned", "idle"} =>
        \A i \in OrderIds :
            /\ Cardinality(Occurrences(i)) <= 1
            /\ (i \in DOMAIN orders_) <=> (Cardinality(Occurrences(i)) = 1)
            /\ \A x \in Occurrences(i) :
                  /\ OrderAt(x).side_ = x[1]
                  /\ OrderAt(x).price_ = x[2]
                  /\ (i \in DOMAIN orders_) =>
                        /\ orders_[i].side_ = x[1]
                        /\ orders_[i].price_ = x[2]

C12_Witness ==
    /\ pc = "returned"
    /\ op = "add"
    /\ trades # <<>>
    /\ DOMAIN orders_ # {}
    /\ \E o \in PreOrders : o.orderID_ \notin DOMAIN orders_
    /\ \A i \in DOMAIN orders_ : Cardinality(Occurrences(i)) = 1

\* C13: after every addOrder or cancelOrder returns, and also between two
\* iterations of the match loop, every price key of the bid side and of the
\* ask side maps to a non-empty queue and every order in a queue has
\* remaining > 0.
C13_NoEmptyLevels ==
    pc \in {"returned", "idle", "loop"} =>
        /\ \A p \in DOMAIN bids_ : bids_[p] # <<>>
        /\ \A p \in DOMAIN asks_ : asks_[p] # <<>>
        /\ \A o \in AllOrders(bids_) \cup AllOrders(asks_) : o.remainingQuantity > 0

C13_Witness ==
    /\ pc = "returned"
    /\ op = "add"
    /\ trades # <<>>
    /\ \E p \in DOMAIN pre.asks_ : p \notin DOMAIN asks_
    /\ DOMAIN asks_ # {}
    /\ DOMAIN bids_ # {}
    /\ \A p \in DOMAIN asks_ : asks_[p] # <<>>

\* side `book` of the book without the order of identity i: the other orders
\* keep their remaining quantity and their relative position, a level
\* exists iff an order is left in it
Without(book, i) ==
    LET rest(p) == SelectSeq(book[p], LAMBDA x : x.orderID_ # i)
    IN  [p \in {x \in DOMAIN book : rest(x) # <<>>} |-> rest(p)]

\* C14: cancelOrder(id) with id in the registry removes exactly that order
\* from its queue and from the registry, removes its level iff the queue
\* became empty, and leaves every other order's remaining quantity and
\* relative position unchanged; with id not in the registry it leaves bids,
\* asks and registry unchanged.
C14_CancelFrame ==
    (pc = "returned" /\ op = "cancel") =>
        IF incoming.orderID_ \in DOMAIN pre.orders_
        THEN /\ bids_ = Without(pre.bids_, incoming.orderID_)
             /\ asks_ = Without(pre.asks_, incoming.orderID_)
             /\ DOMAIN orders_ = (DOMAIN pre.orders_) \ {incoming.orderID_}
             /\ \A i \in DOMAIN orders_ : orders_[i] = pre.orders_[i]
             /\ Cardinality(AllOrders(bids_) \cup AllOrders(asks_))
                  = Cardinality(PreOrders) - 1
        ELSE BookNow = pre

C14_Witness ==
    /\ pc = "returned"
    /\ op = "cancel"
    /\ incoming.orderID_ \in DOMAIN pre.orders_
    /\ \E p \in DOMAIN pre.bids_ :
          /\ Len(pre.bids_[p]) = 2
          /\ pre.bids_[p][2].orderID_ = incoming.orderID_
          /\ p \in DOMAIN bids_
          /\ bids_[p] = <<pre.bids_[p][1]>>
    /\ DOMAIN asks_ # {}

PreOwn == IF incoming.side_ = "Buy" THEN pre.bids_ ELSE pre.asks_

OwnNow == IF incoming.side_ = "Buy" THEN bids_ ELSE asks_

OppositeNow == IF incoming.side_ = "Buy" THEN asks_ ELSE bids_

IncomingGTC == op = "add" /\ incoming.orderType_ = "GoodTillCancel"

\* C15: addOrder of a good-till-cancel order with an unregistered identity
\* that does not cross returns no trades; the book afterwards is the book
\* before with only that order appended at the tail of the queue at its
\* limit price on its side, remaining = initial, and registered; the
\* opposite side and all other orders are unchanged.
C15_RestingInsert ==
    (IncomingGTC /\ FreshIdentity /\ ~WouldCross) =>
        /\ pc \in {"loop", "returned"}
        /\ trades = <<>>
        /\ DOMAIN OwnNow = (DOMAIN PreOwn) \cup {incoming.price_}
        /\ \A p \in DOMAIN OwnNow :
              OwnNow[p] = IF p # incoming.price_ THEN PreOwn[p]
                          ELSE IF p \in DOMAIN PreOwn THEN PreOwn[p] \o <<incoming>>
                          ELSE <<incoming>>
        /\ incoming.remainingQuantity = incoming.initialQuantity_
        /\ OppositeNow = PreOpposite
        /\ DOMAIN orders_ = (DOMAIN pre.orders_) \cup {incoming.orderID_}
        /\ \A i \in DOMAIN pre.orders_ : orders_[i] = pre.orders_[i]
        /\ orders_[incoming.orderID_].side_ = incoming.side_
        /\ orders_[incoming.orderID_].price_ = incoming.price_

C15_Witness ==
    /\ pc = "returned"
    /\ IncomingGTC
    /\ FreshIdentity
    /\ ~WouldCross
    /\ incoming.price_ \in DOMAIN PreOwn
    /\ DOMAIN PreOpposite # {}
    /\ Len(OwnNow[incoming.price_]) = 2
    /\ OwnNow[incoming.price_][2] = incoming

Admitted ==
    /\ op = "add"
    /\ FreshIdentity
    /\ incoming.orderType_ = "FillAndKill" => WouldCross

MaximalFill ==
    IF incoming.initialQuantity_ < PreLiquidity
    THEN incoming.initialQuantity_ ELSE PreLiquidity

\* C16: for every admitted order of quantity q and limit p the quantities of
\* the returned trades sum to min(q, L), L being the remaining quantity that
\* rested on the opposite side at p or better when the call started; a
\* good-till-cancel order then rests with remaining q - min(q, L) when that
\* is positive and is absent from the book otherwise.
C16_MaximalFill ==
    (pc = "returned" /\ Admitted) =>
        /\ SumTrades(trades) = MaximalFill
        /\ incoming.orderType_ = "GoodTillCancel" =>
              IF incoming.initialQuantity_ - MaximalFill > 0
              THEN /\ incoming.orderID_ \in DOMAIN orders_
                   /\ \E o \in AllOrders(OwnNow) :
                         /\ o.orderID_ = incoming.orderID_
                         /\ o.remainingQuantity = incoming.initialQuantity_ - MaximalFill
                   /\ \A o \in AllOrders(bids_) \cup AllOrders(asks_) :
                         o.orderID_ = incoming.orderID_ =>
                            o.remainingQuantity = incoming.initialQuantity_ - MaximalFill
              ELSE /\ incoming.orderID_ \notin DOMAIN orders_
                   /\ \A o \in AllOrders(bids_) \cup AllOrders(asks_) :
                         o.orderID_ # incoming.orderID_

C16_Witness ==
    /\ pc = "returned"
    /\ Admitted
    /\ incoming.orderType_ = "GoodTillCancel"
    /\ PreLiquidity > 0
    /\ incoming.initialQuantity_ > PreLiquidity
    /\ SumTrades(trades) = PreLiquidity
    /\ \E o \in AllOrders(OwnNow) :
          /\ o.orderID_ = incoming.orderID_
          /\ o.remainingQuantity = incoming.initialQuantity_ - PreLiquidity

\* the heads of the best bid level and of the best ask level
HeadOfBestBid ==
    LET p == CHOOSE x \in DOMAIN bids_ : \A y \in DOMAIN bids_ : y <= x
    IN  bids_[p][1]

HeadOfBestAsk ==
    LET p == CHOOSE x \in DOMAIN asks_ : \A y \in DOMAIN asks_ : x <= y
    IN  asks_[p][1]

C18_Terminates ==
    /\ pc \notin {"crashed", "thrown"}
    /\ op = "add" => Len(trades) <= Cardinality(DOMAIN pre.orders_) + 1

\* C19: every trade of an addOrder call has the incoming order as the leg of
\* the incoming order's side, and the call changes no resting order of that
\* side: its queues, without the incoming order, stay as they were when the
\* call started.
C19_IncomingIsALeg ==
    op = "add" =>
        /\ \A k \in 1..Len(trades) :
              IF incoming.side_ = "Buy"
              THEN trades[k].bidTrade_.orderid_ = incoming.orderID_
              ELSE trades[k].askTrade_.orderid_ = incoming.orderID_
        /\ IF FreshIdentity
           THEN Without(OwnNow, incoming.orderID_) = PreOwn
           ELSE OwnNow = PreOwn

C19_Witness ==
    /\ pc = "returned"
    /\ op = "add"
    /\ Len(trades) = 1
    /\ DOMAIN PreOwn # {}
    /\ OwnNow = PreOwn
    /\ \E o \in AllOrders(PreOwn) : o.remainingQuantity < o.initialQuantity_

RECURSIVE SumBidLegs(_)
SumBidLegs(ts) ==
    IF ts = <<>> THEN 0 ELSE Head(ts).bidTrade_.quantity_ + SumBidLegs(Tail(ts))

RECURSIVE SumAskLegs(_)
SumAskLegs(ts) ==
    IF ts = <<>> THEN 0 ELSE Head(ts).askTrade_.quantity_ + SumAskLegs(Tail(ts))

\* initial quantity of the order that carried identity i in this call: the
\* incoming order, or an order in the book when the call started
InitialOf(i) ==
    IF op = "add" /\ FreshIdentity /\ incoming.orderID_ = i
    THEN incoming.initialQuantity_
    ELSE (CHOOSE o \in PreOrders : o.orderID_ = i).initialQuantity_

\* identities whose orders the match loop of this call has removed as filled
RemovedAsFilled ==
    IF op = "add" /\ pc = "loop"
    THEN ((DOMAIN pre.orders_) \cup {incoming.orderID_}) \ DOMAIN orders_
    ELSE IF op = "add" /\ pc = "returned"
    THEN ((DOMAIN pre.orders_)
            \cup (IF Admitted /\ incoming.orderType_ = "GoodTillCancel"
                  THEN {incoming.orderID_} ELSE {})) \ DOMAIN orders_
    ELSE {}

\* C20: quantity conservation.  Whenever no iteration of the match loop is
\* under way, the trades ever emitted that name an order in the book sum to
\* its initial minus its remaining quantity; the trades that name an order
\* removed as fully filled sum to its initial quantity; and the bid legs of
\* the emitted trades carry the same total quantity as the ask legs.
C20_Conservation ==
    /\ pc \in {"idle", "loop", "returned"} =>
          /\ \A o \in AllOrders(bids_) \cup AllOrders(asks_) :
                traded[o.orderID_] = o.initialQuantity_ - o.remainingQuantity
          /\ \A i \in RemovedAsFilled : traded[i] = InitialOf(i)
    /\ SumBidLegs(trades) = SumAskLegs(trades)

C20_Witness ==
    /\ pc = "returned"
    /\ op = "add"
    /\ Len(trades) = 2
    /\ Cardinality(RemovedAsFilled) = 2
    /\ \E o \in AllOrders(bids_) \cup AllOrders(asks_) :
          /\ o.remainingQuantity < o.initialQuantity_
          /\ traded[o.orderID_] > 0

====
